---- MODULE Spec2Model ----
(***************************************************************************)
(* Model of Copy 2.0 (Windows), src/Copy2_Windows.py:                      *)
(*   - the clipboard history store with capacity and protection            *)
(*     (Copy2AppBase._add_history_item and the operations around it);      *)
(*   - the self-update engine (update check, download/stage worker and     *)
(*     the generated updater .bat).                                        *)
(*                                                                         *)
(* Contents are modelled as the numbers 1..NumContents (distinct non-empty *)
(* clipboard texts).  favorites and pins are Python lists kept free of     *)
(* duplicates by every writer and only ever tested for membership by the   *)
(* modelled code, so they are modelled as sets.  tags maps a text to the   *)
(* number of tags in its list (0 is the empty list an import can write).   *)
(*                                                                         *)
(* The capacity constants are scaled down so that the history can fill up  *)
(* to the hard cap with a handful of contents: HARD_MAX_HISTORY is 500 in  *)
(* the source, the lower clamp 5 and the auto-expand margin 5.             *)
(***************************************************************************)
EXTENDS Integers, Sequences, FiniteSets, TLC

\* ---------------------------------------------------------------- bounds
NumContents == 3
MaxImportLen == 1

\* ------------------------------------------------- program constants (scaled)
HARD_MAX_HISTORY == 2
MIN_MAX_HISTORY == 1
EXPAND_MARGIN == 1

Contents == 1..NumContents
\* texts the pin / tag operations are tried on (input bound)
PinInputs == {1}
\* the content that is whitespace only (a text for which strip() is empty)
BlankContents == {3}
TagInputs == {2}

VARIABLES
    history,                \* self.history (deque, oldest first)
    favorites,              \* self.favorites
    pins,                   \* self.pins
    tags,                   \* self.tags : text -> number of tags
    max_history,            \* self.settings.max_history
    warned_limit_reached,   \* self._warned_limit_reached
    warned_fav_block,       \* self._warned_fav_block
    last                    \* the last store operation, its notify calls, the items it removed

storeVars == <<history, favorites, pins, tags, max_history,
               warned_limit_reached, warned_fav_block, last>>

VARIABLES
    env,            \* the running process: frozen (sys.frozen), onedir (the
                    \* build is folder-based), markers (a runtime file of the
                    \* marker list lies beside the exe), exe_exists
    chk,            \* update check: position of _check_updates_async / its outcome
    info,           \* release info handed to ui_prompt and to the download worker
    upd,            \* position of the _download_and_apply_update_async worker
    fail,           \* why that worker failed ("none" while it has not)
    dl,             \* result of _http_download for the current session
    inspected,      \* the payload's content has been read by the worker
    staged,         \* content of staged_Copy2.exe ("none" before staging)
    pending_err,    \* ui_err callbacks handed to the interactive thread
    notes,          \* error dialogs shown in the current ApplyUpdate session
    app_running,    \* the orchestrator's PID is in the process table
    bat,            \* position of the generated copy2_updater.bat
    target,         \* content at TARGET_EXE
    bak,            \* content at BAK_EXE
    tries,          \* TRIES of the .bat
    launches        \* number of: start "" "%TARGET_EXE%"

updVars == <<env, chk, info, upd, fail, dl, inspected, staged, pending_err,
             notes, app_running, bat, target, bak, tries, launches>>

\* arguments and results of the pure functions of the update check
VARIABLES
    ver_in,         \* [latest, installed]: the strings given to is_newer_version
    ver_out,        \* what _norm_ver / is_newer_version returned for ver_in
    rel_in,         \* the release JSON given to get_latest_release_info
    rel_out,        \* the asset it chose
    prune_in,       \* [items, keep, capacity] given to _prune_preserving_favorites
    prune_out       \* the (new_items, success) it returned

fnVars == <<ver_in, ver_out, rel_in, rel_out, prune_in, prune_out>>

\* how the window was closed for an update
VARIABLES
    closed          \* [done, dirty (_preview_dirty at that time), confirms
                    \* (dialogs asked while closing), saved (what _persist wrote)]

closeVars == <<closed>>

\* which thread touched the user interface
VARIABLES
    ui              \* the Tk accesses made by the application's latest step:
                    \* a set of [thread, what]

uiVars == <<ui>>

\* the script's own file
VARIABLES
    self_del        \* the script has run: del "%~f0"

scriptVars == <<self_del>>

\* update sessions side by side: every call of _check_updates_async starts a
\* thread of its own, every accepted prompt a download thread of its own
VARIABLES
    race            \* [phase : session -> where it is, close_jobs : pending
                    \* after(150, _on_close_for_update) callbacks, running :
                    \* the process is alive]

raceVars == <<race>>

vars == <<storeVars, updVars, fnVars, closeVars, uiVars, scriptVars, raceVars>>

\* ---------------------------------------------------------------- helpers
Range(s) == {s[i] : i \in 1..Len(s)}

Min2(a, b) == IF a < b THEN a ELSE b
Max2(a, b) == IF a > b THEN a ELSE b

\* [x for x in s if x != t]
Without(s, t) == SelectSeq(s, LAMBDA x : x # t)

\* [x for x in s if x in keep]
Only(s, keep) == SelectSeq(s, LAMBDA x : x \in keep)

\* list.pop(i), 1-based
PopAt(s, i) == SubSeq(s, 1, i - 1) \o SubSeq(s, i + 1, Len(s))

\* s[-n:] for n >= 1
LastN(s, n) == IF Len(s) <= n THEN s ELSE SubSeq(s, Len(s) - n + 1, Len(s))

\* collections.deque(items, maxlen=cap): only the last cap items are kept
Deque(items, cap) == LastN(items, cap)

\* set(self.tags.keys())
TagKeys(tg) == DOMAIN tg

\* keep-set of _prune_preserving_favorites
PruneKeep(fav, pin, tg) == fav \cup pin \cup TagKeys(tg)

\* keep-set of _clean_keep_favorites: tags count only with a non-empty list
CleanKeep(fav, pin, tg) == fav \cup pin \cup {k \in DOMAIN tg : tg[k] > 0}

\* variant of the loop that pops the oldest item whether protected or not
RECURSIVE PruneLoopIgnoringKeep(_, _, _, _)
PruneLoopIgnoringKeep(out, i, capacity, keep) ==
    IF Len(out) > capacity /\ i <= Len(out)
    THEN PruneLoopIgnoringKeep(PopAt(out, i), i, capacity, keep)
    ELSE out

\* the while loop of _prune_preserving_favorites (i is 1-based here)
RECURSIVE PruneLoop(_, _, _, _)
PruneLoop(out, i, capacity, keep) ==
    IF Len(out) > capacity /\ i <= Len(out)
    THEN IF out[i] \in keep
         THEN PruneLoop(out, i + 1, capacity, keep)
         ELSE PruneLoop(PopAt(out, i), i, capacity, keep)
    ELSE out

\* variant that reports success whatever is left
PruneAlwaysOk(items, capacity, keep) ==
    IF Len(items) <= capacity
    THEN [items |-> items, ok |-> TRUE]
    ELSE [items |-> PruneLoop(items, 1, capacity, keep), ok |-> TRUE]

\* _prune_preserving_favorites(items, capacity) -> (new_items, success); keep
\* is the set it builds from favorites, pins and the keys of tags
PrunePreservingFavorites(items, capacity, keep) ==
    IF Len(items) <= capacity
    THEN [items |-> items, ok |-> TRUE]
    ELSE LET out == PruneLoop(items, 1, capacity, keep)
         IN  [items |-> out, ok |-> Len(out) <= capacity]

\* input bound of the prune function alone: lists of up to MaxPruneLen items
\* out of as many contents
MaxPruneLen == 4
PruneItems == 1..MaxPruneLen

NoPruneIn == [items |-> <<>>, keep |-> {}, capacity |-> 0]
NoPruneOut == [done |-> FALSE, items |-> <<>>, ok |-> FALSE]

\* _prune_preserving_favorites called on prune_in
PruneCall ==
    /\ ~prune_out.done
    /\ prune_in # NoPruneIn
    /\ \E r \in {PrunePreservingFavorites(prune_in.items, prune_in.capacity,
                                          prune_in.keep)} :
          prune_out' = [done |-> TRUE, items |-> r.items, ok |-> r.ok]
    /\ UNCHANGED <<ver_in, ver_out, rel_in, rel_out, prune_in>>
    /\ UNCHANGED <<storeVars, updVars, closeVars, uiVars, scriptVars, raceVars>>

\* the dialogs opened by the notify functions in calls: _notify_limit_reached
\* and _notify_favorites_blocking return at once when their flag is set,
\* _notify_hard_cap_reached has no flag
NotifyShows(calls) ==
    {k \in calls : \/ k = "hard_cap_reached"
                   \/ k = "limit_reached" /\ ~warned_limit_reached
                   \/ k = "favorites_blocking" /\ ~warned_fav_block}

\* the record kept of the last store operation: its name, the notify functions
\* it called, the dialogs they opened and the history items it removed
Last(op, calls, newHistory) ==
    [op |-> op, calls |-> calls, shown |-> NotifyShows(calls),
     removed |-> Range(history) \ Range(newHistory)]

\* ------------------------------------------------------------------- Add
\* _add_history_item(text) as a function of the store; calls is the set of
\* notify functions it invokes
AddHistoryItem(text) ==
    LET items0 == history
        keep   == PruneKeep(favorites, pins, tags)
        same   == [history |-> history, max_history |-> max_history,
                   wl |-> warned_limit_reached, wf |-> warned_fav_block,
                   calls |-> {}]
    IN
    IF Len(items0) > 0 /\ items0[Len(items0)] = text
    THEN same
    ELSE
      LET items   == Without(items0, text) \o <<text>>
          cap     == max_history
          atCap   == Len(items) >= cap
          c0      == IF atCap THEN {"limit_reached"} ELSE {}
          wl1     == IF atCap THEN TRUE
                              ELSE warned_limit_reached
          r       == PrunePreservingFavorites(items, cap, keep)
      IN
      IF r.ok
      THEN [history |-> Deque(r.items, cap), max_history |-> cap,
            wl |-> wl1, wf |-> warned_fav_block, calls |-> c0]
      ELSE
        LET protected == favorites \cup pins \cup TagKeys(tags)
            need      == Cardinality(protected) + EXPAND_MARGIN
            expand    == need > max_history
            cap2      == IF expand
                         THEN Min2(HARD_MAX_HISTORY, Max2(max_history, need))
                         ELSE max_history
            r2        == PrunePreservingFavorites(items, cap2, keep)
        IN
        IF expand /\ r2.ok
        THEN [history |-> Deque(LastN(r2.items, cap2), cap2),
              max_history |-> cap2,
              wl |-> wl1, wf |-> warned_fav_block, calls |-> c0]
        ELSE [history |-> history, max_history |-> cap2,
              wl |-> wl1, wf |-> TRUE,
              calls |-> c0 \cup {"favorites_blocking"}
                          \cup (IF cap2 >= HARD_MAX_HISTORY
                                THEN {"hard_cap_reached"} ELSE {})]

Add(text) ==
    \E r \in {AddHistoryItem(text)} :
    /\ history' = r.history
    /\ max_history' = r.max_history
    /\ warned_limit_reached' = r.wl
    /\ warned_fav_block' = r.wf
    /\ last' = Last("Add", r.calls, r.history)
    /\ UNCHANGED <<favorites, pins, tags>>
    /\ UNCHANGED <<updVars, fnVars, closeVars, uiVars, scriptVars, raceVars>>

\* ---------------------------------------------------------------- Remove
\* variant that removes the text from the history only
DeleteSelectedKeepsFlags(t) ==
    /\ t \in Range(history)
    /\ history' = Deque(Without(history, t), max_history)
    /\ last' = Last("Delete", {}, Without(history, t))
    /\ UNCHANGED <<favorites, pins, tags>>
    /\ UNCHANGED <<max_history, warned_limit_reached, warned_fav_block>>
    /\ UNCHANGED <<updVars, fnVars, closeVars, uiVars, scriptVars, raceVars>>

\* _delete_selected, text branch: t is the selected history item
DeleteSelected(t) ==
    /\ t \in Range(history)
    /\ history' = Deque(Without(history, t), max_history)
    /\ favorites' = favorites \ {t}
    /\ pins' = pins \ {t}
    /\ tags' = [k \in DOMAIN tags \ {t} |-> tags[k]]
    /\ last' = Last("Delete", {}, Without(history, t))
    /\ UNCHANGED <<max_history, warned_limit_reached, warned_fav_block>>
    /\ UNCHANGED <<updVars, fnVars, closeVars, uiVars, scriptVars, raceVars>>

\* ----------------------------------------------------------------- Clean
\* _clean_keep_favorites after the user confirmed
CleanKeepFavorites ==
    LET keep == CleanKeep(favorites, pins, tags)
        kept == Only(history, keep)
        h2   == Deque(kept, max_history)
        alive == Range(h2)
    IN
    /\ history' = h2
    /\ tags' = [k \in {x \in DOMAIN tags : x \in alive \/ x \in keep} |-> tags[k]]
    /\ last' = Last("Clean", {}, h2)
    /\ UNCHANGED <<favorites, pins, max_history,
                   warned_limit_reached, warned_fav_block>>
    /\ UNCHANGED <<updVars, fnVars, closeVars, uiVars, scriptVars, raceVars>>

\* ------------------------------------------------------- protection flags
\* _toggle_favorite_selected with one selected history item
ToggleFavorite(it) ==
    /\ it \in Range(history)
    /\ favorites' = IF it \notin favorites THEN favorites \cup {it}
                    ELSE favorites \ {it}
    /\ last' = Last("Flag", {}, history)
    /\ UNCHANGED <<history, pins, tags, max_history,
                   warned_limit_reached, warned_fav_block>>
    /\ UNCHANGED <<updVars, fnVars, closeVars, uiVars, scriptVars, raceVars>>

\* _toggle_pin_selected with one selected history item
TogglePin(t) ==
    /\ t \in Range(history) \cap PinInputs
    /\ pins' = IF t \notin pins THEN pins \cup {t} ELSE pins \ {t}
    /\ last' = Last("Flag", {}, history)
    /\ UNCHANGED <<history, favorites, tags, max_history,
                   warned_limit_reached, warned_fav_block>>
    /\ UNCHANGED <<updVars, fnVars, closeVars, uiVars, scriptVars, raceVars>>

\* _open_tags_dialog.add_tag: one tag name, one selected history item
AddTag(t) ==
    /\ t \in Range(history) \cap TagInputs
    /\ tags' = [k \in DOMAIN tags \cup {t} |-> IF k = t THEN 1 ELSE tags[k]]
    /\ last' = Last("Flag", {}, history)
    /\ UNCHANGED <<history, favorites, pins, max_history,
                   warned_limit_reached, warned_fav_block>>
    /\ UNCHANGED <<updVars, fnVars, closeVars, uiVars, scriptVars, raceVars>>

\* _open_tags_dialog.remove_tag: removing the last tag pops the key
RemoveTag(t) ==
    /\ t \in Range(history) \cap TagInputs
    /\ t \in DOMAIN tags
    /\ tags' = [k \in DOMAIN tags \ {t} |-> tags[k]]
    /\ last' = Last("Flag", {}, history)
    /\ UNCHANGED <<history, favorites, pins, max_history,
                   warned_limit_reached, warned_fav_block>>
    /\ UNCHANGED <<updVars, fnVars, closeVars, uiVars, scriptVars, raceVars>>

\* -------------------------------------------------------- settings change
\* variant that stores the new cap without re-pruning the history
ApplyCapacityWithoutPrune(raw) ==
    LET mh == Max2(MIN_MAX_HISTORY, Min2(HARD_MAX_HISTORY, raw))
    IN  [history |-> history, max_history |-> mh, wf |-> warned_fav_block,
         calls |-> IF mh >= HARD_MAX_HISTORY THEN {"hard_cap_reached"} ELSE {}]

\* _open_settings.apply_settings, the max-history part: raw is the integer
\* the user typed
ApplyCapacity(raw) ==
    LET mh == Max2(MIN_MAX_HISTORY, Min2(HARD_MAX_HISTORY, raw))
        r  == PrunePreservingFavorites(history, mh,
                                       PruneKeep(favorites, pins, tags))
    IN  [history |-> Deque(LastN(r.items, mh), mh),
         max_history |-> mh,
         wf |-> IF r.ok THEN warned_fav_block ELSE TRUE,
         calls |-> (IF mh >= HARD_MAX_HISTORY THEN {"hard_cap_reached"} ELSE {})
                   \cup (IF r.ok THEN {} ELSE {"favorites_blocking"})]

ApplySettings(raw) ==
    \E r \in {ApplyCapacity(raw)} :
    /\ history' = r.history
    /\ max_history' = r.max_history
    /\ warned_fav_block' = r.wf
    /\ last' = Last("Apply", r.calls, r.history)
    /\ UNCHANGED <<favorites, pins, tags, warned_limit_reached>>
    /\ UNCHANGED <<updVars, fnVars, closeVars, uiVars, scriptVars, raceVars>>

\* ---------------------------------------------------------------- Import
Reverse(s) == [i \in 1..Len(s) |-> s[Len(s) + 1 - i]]

\* the "stable de-dupe (keep latest occurrences)" loop of _import over
\* reversed(merged)
RECURSIVE DedupLoop(_, _, _, _)
DedupLoop(rev, i, seen, out) ==
    IF i > Len(rev) THEN out
    ELSE IF rev[i] \notin seen
         THEN DedupLoop(rev, i + 1, seen \cup {rev[i]}, Append(out, rev[i]))
         ELSE DedupLoop(rev, i + 1, seen, out)

DedupKeepLatest(merged) == Reverse(DedupLoop(Reverse(merged), 1, {}, <<>>))

\* merge of an imported tags dict into self.tags (one tag name)
MergeTags(tg, imp) ==
    [k \in DOMAIN tg \cup DOMAIN imp |->
        IF k \in DOMAIN tg /\ k \in DOMAIN imp THEN Max2(tg[k], imp[k])
        ELSE IF k \in DOMAIN tg THEN tg[k] ELSE imp[k]]

\* item.strip() is empty: the content is whitespace only
IsBlank(c) == c \in BlankContents

\* the history items _import takes from the file: isinstance(item, str) and
\* item.strip()
ImportableHistory(h) == SelectSeq(h, LAMBDA c : ~IsBlank(c))

\* _import(data) into the store st = [history, favorites, pins, tags] under
\* the cap
ImportInto(st, cap, doc) ==
    LET merged == st.history \o ImportableHistory(doc.history)
        out    == DedupKeepLatest(merged)
        fav2   == st.favorites \cup doc.favorites
        pin2   == st.pins \cup doc.pins
        tag2   == MergeTags(st.tags, doc.tags)
        r      == PrunePreservingFavorites(out, cap, PruneKeep(fav2, pin2, tag2))
    IN  [history |-> Deque(LastN(r.items, cap), cap),
         favorites |-> fav2, pins |-> pin2, tags |-> tag2, ok |-> r.ok]

\* the payload _export writes, as far as _import reads it back
ExportPayload ==
    [history |-> history, favorites |-> favorites, pins |-> pins, tags |-> tags]

\* _import(data) as a function of the store
ImportData(doc) ==
    LET r == ImportInto(ExportPayload, max_history, doc)
    IN  [history |-> r.history,
         favorites |-> r.favorites, pins |-> r.pins, tags |-> r.tags,
         wf |-> IF r.ok THEN warned_fav_block ELSE TRUE,
         calls |-> IF r.ok THEN {} ELSE {"favorites_blocking"}]

Import(doc) ==
    \E r \in {ImportData(doc)} :
    /\ history' = r.history
    /\ favorites' = r.favorites
    /\ pins' = r.pins
    /\ tags' = r.tags
    /\ warned_fav_block' = r.wf
    /\ last' = Last("Import", r.calls, r.history)
    /\ UNCHANGED <<max_history, warned_limit_reached>>
    /\ UNCHANGED <<updVars, fnVars, closeVars, uiVars, scriptVars, raceVars>>

\* ------------------------------------------------------ save preview edit
\* _save_preview_edits with a selected item old and the edited text new
SavePreviewEdits(old, new) ==
    LET items == Without(history, old) \o <<new>>
        fav2  == IF old \in favorites
                 THEN (favorites \ {old}) \cup {new} ELSE favorites
        cap   == max_history
        r     == PrunePreservingFavorites(items, cap, PruneKeep(fav2, pins, tags))
    IN
    /\ old \in Range(history)
    /\ ~IsBlank(new)
    /\ favorites' = fav2
    /\ IF r.ok
       THEN /\ history' = Deque(r.items, cap)
            /\ warned_fav_block' = warned_fav_block
            /\ last' = Last("Edit", {}, r.items)
       ELSE /\ history' = history
            /\ warned_fav_block' = TRUE
            /\ last' = Last("Edit", {"favorites_blocking"}, history)
    /\ UNCHANGED <<pins, tags, max_history, warned_limit_reached>>
    /\ UNCHANGED <<updVars, fnVars, closeVars, uiVars, scriptVars, raceVars>>

\* ------------------------------------------------------------ input sets
SeqsUpTo(S, n) == UNION {[1..k -> S] : k \in 0..n}

EmptyTags == [k \in {} |-> 0]

\* imported documents: a short history list whose items are all favorites or
\* all plain (as an export of such a store is), or a single protection entry
ImportDocs ==
    UNION {{[history |-> h, favorites |-> f, pins |-> {}, tags |-> EmptyTags] :
                f \in {{}, Range(h)}} : h \in SeqsUpTo(Contents, MaxImportLen)}
    \cup
    {[history |-> <<>>, favorites |-> {c}, pins |-> {}, tags |-> EmptyTags] :
        c \in Contents}
    \cup
    {[history |-> <<>>, favorites |-> {}, pins |-> {c}, tags |-> EmptyTags] :
        c \in PinInputs}
    \cup
    {[history |-> <<>>, favorites |-> {}, pins |-> {}, tags |-> [k \in {x} |-> n]] :
        x \in TagInputs, n \in 0..1}

\* what the user can type into "Max history"
CapacityInputs == (MIN_MAX_HISTORY - 1)..(HARD_MAX_HISTORY + 1)


\* =========================================================== update engine
\* bounds of the update model
MaxVerPart == 1
MaxBytes == 2

\* self-test attempts of the .bat: if !TRIES! LSS 5
SELFTEST_MAX_TRIES == 5

\* A tag is modelled by what _norm_ver reads of it: whether the string is
\* empty and the list of its digit groups, re.findall(r"\d+", v).
Tag(empty, parts) == [empty |-> empty, parts |-> parts]
NoTag == Tag(TRUE, <<>>)
Tags == {NoTag} \cup {Tag(FALSE, ps) : ps \in SeqsUpTo(0..MaxVerPart, 3)}

\* APP_VERSION ("1.0.8" in the source, scaled to the modelled digit range)
APP_VERSION == Tag(FALSE, <<1, 0, 0>>)

\* _norm_ver: the first three digit groups, padded with zeros
NormVer(v) ==
    LET nums == SubSeq(v.parts, 1, Min2(3, Len(v.parts))) \o <<0, 0, 0>>
    IN  <<nums[1], nums[2], nums[3]>>

\* Python tuple comparison a > b on triples
TupleGreater(a, b) ==
    \/ a[1] > b[1]
    \/ a[1] = b[1] /\ a[2] > b[2]
    \/ a[1] = b[1] /\ a[2] = b[2] /\ a[3] > b[3]

\* is_newer_version(latest, installed)
IsNewerVersion(latest, installed) == TupleGreater(NormVer(latest), NormVer(installed))

\* A version string as the characters _norm_ver tells apart: a letter v, a
\* dot, a run of digits (n is its value) or other text without digits.
MaxTagLen == 5
Tok(k, n) == [k |-> k, n |-> n]
Tokens == {Tok("v", 0), Tok("dot", 0), Tok("text", 0)}
              \cup {Tok("digits", n) : n \in 0..MaxVerPart}

\* strings of up to MaxTagLen tokens; two runs of digits are never adjacent
VersionStrings ==
    {s \in SeqsUpTo(Tokens, MaxTagLen) :
        \A i \in 1..(Len(s) - 1) : ~(s[i].k = "digits" /\ s[i + 1].k = "digits")}

\* f"v{APP_VERSION}", with the digits of APP_VERSION above
AppVersionString ==
    <<Tok("v", 0), Tok("digits", 1), Tok("dot", 0), Tok("digits", 0),
      Tok("dot", 0), Tok("digits", 0)>>

\* v[1:] if v.lower().startswith("v") else v
StripV(s) == IF Len(s) > 0 /\ s[1].k = "v" THEN Tail(s) ELSE s

\* re.findall(r"\d+", v) as integers
FindAllDigits(s) ==
    LET runs == SelectSeq(s, LAMBDA t : t.k = "digits")
    IN  [i \in 1..Len(runs) |-> runs[i].n]

\* the tag record of a version string: what _norm_ver reads of it
TagOf(s) == Tag(Len(s) = 0, FindAllDigits(StripV(s)))

NoVerOut == [done |-> FALSE, latest |-> <<0, 0, 0>>, installed |-> <<0, 0, 0>>,
             newer |-> FALSE]

\* is_newer_version(latest, installed) called on ver_in; the result records
\* the two triples of _norm_ver and the comparison
NormVerCall ==
    /\ ~ver_out.done
    /\ ver_out' = [done |-> TRUE,
                   latest |-> NormVer(TagOf(ver_in.latest)),
                   installed |-> NormVer(TagOf(ver_in.installed)),
                   newer |-> IsNewerVersion(TagOf(ver_in.latest),
                                            TagOf(ver_in.installed))]
    /\ UNCHANGED <<ver_in, rel_in, rel_out, prune_in, prune_out>>
    /\ UNCHANGED <<storeVars, updVars, closeVars, uiVars, scriptVars, raceVars>>

\* asset names, by what the code tests of them
ZipNames == {"copy2.zip", "app.zip", "my-copy2.zip", "other.zip"}
ExeNames == {"copy2.exe"}
PreferredZipNames == {"copy2.zip"}
AssetNames == ZipNames \cup ExeNames \cup {"readme.txt"}

\* the asset lists tried; an asset is [name, url]: the url is modelled by the
\* file name it ends in, and is "" when the entry has no browser_download_url
Asset(n) == [name |-> n, url |-> n]
AssetLists ==
    { <<>>, <<Asset("copy2.exe")>>, <<Asset("readme.txt")>>,
      <<Asset("app.zip"), Asset("copy2.zip")>>,
      <<Asset("readme.txt"), Asset("app.zip"), Asset("copy2.exe")>>,
      <<[name |-> "app.zip", url |-> ""]>> }

\* release body: the first .zip / .exe URL it contains, as _parse_zip_url_from_body
\* finds them ("" when the body has no such URL)
Bodies == {[zip |-> z, exe |-> e] : z \in {"", "https://x/rel.zip"},
                                     e \in {"", "https://x/rel.exe"}}

\* _parse_zip_url_from_body
ParseZipUrlFromBody(body) ==
    IF body.zip # "" THEN body.zip
    ELSE IF body.exe # "" THEN body.exe
    ELSE ""

\* u.split("/")[-1] for the modelled URLs
UrlFileName(u) ==
    IF u = "https://x/rel.zip" THEN "rel.zip"
    ELSE IF u = "https://x/rel.exe" THEN "rel.exe"
    ELSE u

\* answers of the release endpoint: the request fails (network error, timeout,
\* HTTP error), the body is not JSON, the JSON is not an object, or an object
Responses ==
    {[kind |-> k, tag |-> NoTag, assets |-> <<>>, body |-> [zip |-> "", exe |-> ""]] :
        k \in {"error", "not_json", "not_object"}}
    \cup
    {[kind |-> "object", tag |-> t, assets |-> a, body |-> b] :
        t \in Tags, a \in AssetLists, b \in Bodies}

NoInfo == [none |-> TRUE, version |-> NoTag, asset_url |-> "", asset_name |-> ""]

\* a release JSON without tag, assets or notes
NoRelease == [kind |-> "object", tag |-> NoTag, assets |-> <<>>,
              body |-> [zip |-> "", exe |-> ""]]

\* first element of a list comprehension, or the default
FirstOr(s, d) == IF Len(s) > 0 THEN s[1] ELSE d

\* get_latest_release_info on the answer resp; NoInfo stands for None
GetLatestReleaseInfo(resp) ==
    IF resp.kind # "object" THEN NoInfo
    ELSE
      LET zip_assets == SelectSeq(resp.assets, LAMBDA a : a.name \in ZipNames)
          exe_assets == SelectSeq(resp.assets, LAMBDA a : a.name \in ExeNames)
          pref       == SelectSeq(zip_assets, LAMBDA a : a.name \in PreferredZipNames)
          nothing    == [name |-> "", url |-> ""]
          chosen     == IF Len(zip_assets) > 0
                        THEN FirstOr(pref, zip_assets[1])
                        ELSE FirstOr(exe_assets, nothing)
          bodyUrl    == ParseZipUrlFromBody(resp.body)
      IN
      IF chosen.url # ""
      THEN [none |-> FALSE, version |-> resp.tag,
            asset_url |-> chosen.url, asset_name |-> chosen.name]
      ELSE IF bodyUrl # ""
      THEN [none |-> FALSE, version |-> resp.tag,
            asset_url |-> bodyUrl, asset_name |-> UrlFileName(bodyUrl)]
      ELSE [none |-> FALSE, version |-> resp.tag,
            asset_url |-> "", asset_name |-> chosen.name]

\* release JSONs for the resolver alone: up to MaxAssets assets with distinct
\* names, each with a download url and a size, and the release notes
MaxAssets == 3
MaxAssetSize == 2
SizedAssets ==
    {[name |-> n, url |-> n, size |-> z] : n \in AssetNames, z \in 1..MaxAssetSize}
SizedAssetLists ==
    {l \in SeqsUpTo(SizedAssets, MaxAssets) :
        \A i, j \in 1..Len(l) : i # j => l[i].name # l[j].name}
Releases ==
    {[kind |-> "object", tag |-> Tag(FALSE, <<1, 1>>), assets |-> a, body |-> b] :
        a \in SizedAssetLists, b \in Bodies}

\* get_latest_release_info called on rel_in
ResolveCall ==
    /\ rel_out.none
    /\ rel_in # NoRelease
    /\ rel_out' = GetLatestReleaseInfo(rel_in)
    /\ UNCHANGED <<ver_in, ver_out, rel_in, prune_in, prune_out>>
    /\ UNCHANGED <<storeVars, updVars, closeVars, uiVars, scriptVars, raceVars>>

\* one Tk access: the thread that made it and what it touched (status_var.set,
\* a messagebox call, the window itself)
Touch(thread, what) == [thread |-> thread, what |-> what]

\* outcome of _check_updates_async.worker for a release info
CheckOutcome(i) ==
    IF i.none THEN "check_failed"
    ELSE IF i.version.empty \/ ~IsNewerVersion(i.version, APP_VERSION)
    THEN "no_updates"
    ELSE "prompt"

\* _check_updates_async: the button or the startup timer starts the worker
\* (one session at a time here; sessions side by side are modelled below)
CheckUpdatesAsync ==
    /\ app_running
    /\ chk \in {"idle", "check_failed", "no_updates", "skipped", "release_page",
                "declined"}
    /\ upd \in {"idle", "failed", "release_page"}
    /\ chk' = "fetching"
    /\ info' = NoInfo
    /\ UNCHANGED <<env, upd, fail, dl, inspected, staged, pending_err, notes,
                   app_running, bat, target, bak, tries, launches>>
    /\ ui' = {}
    /\ UNCHANGED <<self_del, race>>
    /\ UNCHANGED <<storeVars, fnVars, closeVars>>

\* _check_updates_async.worker, up to the hand-off of ui_prompt
CheckWorker(resp) ==
    /\ chk = "fetching"
    /\ \E i \in {GetLatestReleaseInfo(resp)} :
         /\ chk' = CheckOutcome(i)
         /\ info' = IF CheckOutcome(i) = "prompt" THEN i ELSE NoInfo
    /\ UNCHANGED <<env, upd, fail, dl, inspected, staged, pending_err, notes,
                   app_running, bat, target, bak, tries, launches>>
    /\ ui' = IF chk' \in {"check_failed", "no_updates"}
             THEN {Touch("worker", "status_var")} ELSE {}
    /\ UNCHANGED <<self_del, race>>
    /\ UNCHANGED <<storeVars, fnVars, closeVars>>

\* variant of the asset test that takes every release for installable
HasAssetAlways(i) == TRUE

\* ui_prompt's test of the asset url: the negation of "if not asset_url"
HasAsset(i) == i.asset_url # ""

\* ui_prompt on the interactive thread; yes is the user's answer
UiPrompt(yes) ==
    /\ chk = "prompt"
    /\ IF ~HasAsset(info)
       THEN /\ chk' = IF yes THEN "release_page" ELSE "declined"
            /\ UNCHANGED <<upd, fail, dl, inspected, staged, notes>>
       ELSE IF yes
       THEN /\ chk' = "accepted"
            /\ upd' = "start"
            /\ fail' = "none"
            /\ dl' = [downloaded |-> 0, expected |-> -1, content |-> "none"]
            /\ inspected' = FALSE
            /\ staged' = "none"
            /\ notes' = 0
       ELSE /\ chk' = "skipped"
            /\ UNCHANGED <<upd, fail, dl, inspected, staged, notes>>
    /\ UNCHANGED <<env, info, pending_err, app_running, bat, target, bak,
                   tries, launches>>
    /\ ui' = {Touch("main", "messagebox")}
               \cup (IF chk' = "skipped" THEN {Touch("main", "status_var")} ELSE {})
    /\ UNCHANGED <<self_del, race>>
    /\ UNCHANGED <<storeVars, fnVars, closeVars>>


\* ------------------------------------------------- download / stage worker
\* payload contents, by what zipfile.is_zipfile and rglob find in them
ZipContents == {"zip_copy2", "zip_other_exe"}
PayloadContents == ZipContents \cup {"exe", "html"}

\* expected is -1 for None (no usable Content-Length header)
NoExpected == -1

\* Content-Length header of the answer: absent, not a number, or a number
Headers ==
    {[present |-> FALSE, numeric |-> FALSE, value |-> 0],
     [present |-> TRUE, numeric |-> FALSE, value |-> 0]}
    \cup {[present |-> TRUE, numeric |-> TRUE, value |-> v] : v \in 0..MaxBytes}

\* _http_download: expected = int(cl) if the header is there and parses,
\* downloaded counts the bytes written
HttpDownload(written, header, content) ==
    [downloaded |-> written,
     expected |-> IF header.present /\ header.numeric THEN header.value
                  ELSE NoExpected,
     content |-> content]

Downloads ==
    {HttpDownload(n, h, c) : n \in 0..MaxBytes, h \in Headers,
                            c \in PayloadContents}

\* str(download_path).lower().endswith(".exe")
NameEndsWithExe(name) == name \in {"copy2.exe", "rel.exe"}

\* variant of the size test that only catches short downloads
SizeMismatchOnlyShort(d) == d.expected # NoExpected /\ d.downloaded < d.expected

\* the size test of the worker: expected is not None and downloaded != expected
SizeMismatch(d) == d.expected # NoExpected /\ d.downloaded # d.expected

\* what the staging block of the worker does with the downloaded file:
\* "NotZip" / "NoCopy2" are its RuntimeErrors, otherwise the staged content
StageResult(name, content) ==
    IF NameEndsWithExe(name) THEN content
    ELSE IF content \notin ZipContents THEN "NotZip"
    ELSE IF content # "zip_copy2" THEN "NoCopy2"
    ELSE "exe"

\* variant of the except branch that only logs
WorkerFailsSilently(why) ==
    /\ upd' = "failed"
    /\ fail' = why
    /\ pending_err' = pending_err

\* the except branch of the worker: log, hand ui_err to the interactive thread
WorkerFails(why) ==
    /\ upd' = "failed"
    /\ fail' = why
    /\ pending_err' = pending_err + 1

\* is_frozen()
IsFrozen(e) == e.frozen

\* is_onedir_frozen(exe_path): any of the six marker files exists beside the exe
IsOnedirFrozen(e) == e.markers

\* worker: the frozen / onedir / exists tests before anything is downloaded
WorkerStart ==
    /\ upd = "start"
    /\ IF ~IsFrozen(env) \/ IsOnedirFrozen(env)
       THEN /\ upd' = "release_page"
            /\ UNCHANGED <<fail, notes>>
       ELSE IF ~env.exe_exists
       THEN /\ upd' = "failed"
            /\ fail' = "NoTargetExe"
            /\ notes' = notes + 1
       ELSE /\ upd' = "download"
            /\ UNCHANGED <<fail, notes>>
    /\ UNCHANGED <<env, chk, info, dl, inspected, staged, pending_err,
                   app_running, bat, target, bak, tries, launches>>
    /\ ui' = IF upd' \in {"release_page", "failed"}
             THEN {Touch("worker", "messagebox")} ELSE {}
    /\ UNCHANGED <<self_del, race>>
    /\ UNCHANGED <<storeVars, fnVars, closeVars>>

\* worker: _http_download raises (network error, timeout)
DownloadFails ==
    /\ upd = "download"
    /\ WorkerFails("Network")
    /\ UNCHANGED <<env, chk, info, dl, inspected, staged, notes,
                   app_running, bat, target, bak, tries, launches>>
    /\ ui' = {}
    /\ UNCHANGED <<self_del, race>>
    /\ UNCHANGED <<storeVars, fnVars, closeVars>>

\* worker: _http_download returns (downloaded, expected)
Download(d) ==
    /\ upd = "download"
    /\ dl' = d
    /\ upd' = "size_check"
    /\ UNCHANGED <<env, chk, info, fail, inspected, staged, pending_err, notes,
                   app_running, bat, target, bak, tries, launches>>
    /\ ui' = {}
    /\ UNCHANGED <<self_del, race>>
    /\ UNCHANGED <<storeVars, fnVars, closeVars>>

\* worker: the size test
SizeCheck ==
    /\ upd = "size_check"
    /\ IF SizeMismatch(dl)
       THEN WorkerFails("SizeMismatch")
       ELSE /\ upd' = "stage"
            /\ UNCHANGED <<fail, pending_err>>
    /\ UNCHANGED <<env, chk, info, dl, inspected, staged, notes,
                   app_running, bat, target, bak, tries, launches>>
    /\ ui' = {}
    /\ UNCHANGED <<self_del, race>>
    /\ UNCHANGED <<storeVars, fnVars, closeVars>>

\* worker: stage the new exe (direct exe by file name, else from the zip)
Stage ==
    /\ upd = "stage"
    /\ inspected' = TRUE
    /\ \E r \in {StageResult(info.asset_name, dl.content)} :
         IF r \in {"NotZip", "NoCopy2"}
         THEN /\ WorkerFails(r)
              /\ UNCHANGED staged
         ELSE /\ staged' = r
              /\ upd' = "write_bat"
              /\ UNCHANGED <<fail, pending_err>>
    /\ UNCHANGED <<env, chk, info, dl, notes,
                   app_running, bat, target, bak, tries, launches>>
    /\ ui' = {}
    /\ UNCHANGED <<self_del, race>>
    /\ UNCHANGED <<storeVars, fnVars, closeVars>>

\* worker: write the .bat and start it detached (either can raise), then
\* schedule _on_close_for_update
LaunchBat(ok) ==
    /\ upd = "write_bat"
    /\ IF ok
       THEN /\ bat' = "wait"
            /\ upd' = "closing"
            /\ UNCHANGED <<fail, pending_err>>
       ELSE /\ WorkerFails("Launch")
            /\ UNCHANGED bat
    /\ UNCHANGED <<env, chk, info, dl, inspected, staged, notes,
                   app_running, target, bak, tries, launches>>
    /\ ui' = IF ok THEN {Touch("worker", "status_var")} ELSE {}
    /\ UNCHANGED <<self_del, race>>
    /\ UNCHANGED <<storeVars, fnVars, closeVars>>

\* ui_err on the interactive thread: the "Update failed" dialog
UiErr ==
    /\ pending_err > 0
    /\ app_running
    /\ pending_err' = pending_err - 1
    /\ notes' = notes + 1
    /\ UNCHANGED <<env, chk, info, upd, fail, dl, inspected, staged,
                   app_running, bat, target, bak, tries, launches>>
    /\ ui' = {Touch("main", "messagebox"), Touch("main", "status_var")}
    /\ UNCHANGED <<self_del, race>>
    /\ UNCHANGED <<storeVars, fnVars, closeVars>>

\* the window has not been closed
NotClosed == [done |-> FALSE, dirty |-> FALSE, mode |-> "normal", confirms |-> 0,
              saved |-> "none"]

\* what the settings say when _persist runs: nothing special, session_only,
\* or Encrypt-All enabled without a verified session PIN
PersistModes == {"normal", "session_only", "enc_locked"}

\* _persist: the settings file is always written; the store files are not
\* when Encrypt-All is locked or session_only is set
Persist(mode) == IF mode = "normal" THEN "store" ELSE "settings"

\* variant that closes as the window's close button does (_on_close): with
\* unsaved preview edits it first asks Yes / No / Cancel
OnCloseAsking(dirty, mode) ==
    /\ upd = "closing"
    /\ app_running
    /\ upd' = "exited"
    /\ app_running' = FALSE
    /\ closed' = [done |-> TRUE, dirty |-> dirty, mode |-> mode,
                  confirms |-> IF dirty THEN 1 ELSE 0, saved |-> Persist(mode)]
    /\ UNCHANGED <<env, chk, info, fail, dl, inspected, staged, pending_err,
                   notes, bat, target, bak, tries, launches>>
    /\ ui' = {Touch("main", "window")}
    /\ UNCHANGED <<self_del, race>>
    /\ UNCHANGED <<storeVars, fnVars>>

\* _on_close_for_update, run by the event loop 150 ms after the script was
\* started: cancel the poll job, _persist(), destroy(); no dialog, whatever
\* _preview_dirty is. The process ends when mainloop returns.
OnCloseForUpdate(dirty, mode) ==
    /\ upd = "closing"
    /\ app_running
    /\ upd' = "exited"
    /\ app_running' = FALSE
    /\ closed' = [done |-> TRUE, dirty |-> dirty, mode |-> mode,
                  confirms |-> 0, saved |-> Persist(mode)]
    /\ UNCHANGED <<env, chk, info, fail, dl, inspected, staged, pending_err,
                   notes, bat, target, bak, tries, launches>>
    /\ ui' = {Touch("main", "window")}
    /\ UNCHANGED <<self_del, race>>
    /\ UNCHANGED <<storeVars, fnVars>>


\* ------------------------------------------ update sessions side by side
\* Each session is one call of _check_updates_async (the startup timer or the
\* "Check Updates" button) and what follows from it; the steps are those of
\* the single session above with the payload left out. Neither function tests
\* whether a check or an update is already under way.
MaxSessions == 2
Sessions == 1..MaxSessions

NoRace == [phase |-> [s \in Sessions |-> "none"], close_jobs |-> 0,
           running |-> TRUE]

\* race with session s moved to phase ph
SessionAt(s, ph) == [race EXCEPT !.phase[s] = ph]

UnchangedByRace ==
    UNCHANGED <<storeVars, updVars, fnVars, closeVars, uiVars, scriptVars>>

\* _check_updates_async: threading.Thread(target=worker).start()
SessionCheck(s) ==
    /\ race.running
    /\ race.phase[s] = "none"
    /\ race' = SessionAt(s, "checking")
    /\ UnchangedByRace

\* the check worker ends: failed, nothing newer, or after(0, ui_prompt) for a
\* newer release with an asset
SessionCheckDone(s, outcome) ==
    /\ race.running
    /\ race.phase[s] = "checking"
    /\ race' = SessionAt(s, outcome)
    /\ UnchangedByRace

\* ui_prompt on the interactive thread: Yes calls
\* _download_and_apply_update_async, which starts the download thread
SessionPrompt(s, yes) ==
    /\ race.running
    /\ race.phase[s] = "prompt"
    /\ race' = SessionAt(s, IF yes THEN "download" ELSE "skipped")
    /\ UnchangedByRace

\* download worker: _http_download into its own mkdtemp work directory and
\* the size test
SessionDownload(s, ok) ==
    /\ race.running
    /\ race.phase[s] = "download"
    /\ race' = SessionAt(s, IF ok THEN "stage" ELSE "failed")
    /\ UnchangedByRace

\* download worker: stage the new exe in its work directory
SessionStage(s, ok) ==
    /\ race.running
    /\ race.phase[s] = "stage"
    /\ race' = SessionAt(s, IF ok THEN "write_bat" ELSE "failed")
    /\ UnchangedByRace

\* download worker: write copy2_updater.bat (PID and TARGET_EXE of this
\* process), Popen it, after(150, self._on_close_for_update)
SessionLaunch(s, ok) ==
    /\ race.running
    /\ race.phase[s] = "write_bat"
    /\ race' = IF ok
               THEN [SessionAt(s, "launched") EXCEPT !.close_jobs = @ + 1]
               ELSE SessionAt(s, "failed")
    /\ UnchangedByRace

\* _on_close_for_update: destroy(); mainloop returns and the process ends,
\* its daemon threads with it
SessionClose ==
    /\ race.running
    /\ race.close_jobs > 0
    /\ race' = [race EXCEPT !.running = FALSE, !.close_jobs = @ - 1]
    /\ UnchangedByRace

RaceNext ==
    \/ \E s \in Sessions : SessionCheck(s)
    \/ \E s \in Sessions, outcome \in {"check_failed", "no_updates", "prompt"} :
          SessionCheckDone(s, outcome)
    \/ \E s \in Sessions, yes \in BOOLEAN : SessionPrompt(s, yes)
    \/ \E s \in Sessions, ok \in BOOLEAN : SessionDownload(s, ok)
    \/ \E s \in Sessions, ok \in BOOLEAN : SessionStage(s, ok)
    \/ \E s \in Sessions, ok \in BOOLEAN : SessionLaunch(s, ok)
    \/ SessionClose

\* --------------------------------------------------- copy2_updater.bat
\* what "copy /y src dst" leaves at dst: the source when it succeeds, the
\* destination untouched when it fails
CopyOver(ok, src, dst) == IF ok THEN src ELSE dst

\* :wait loop while tasklist still lists %PID%  (timeout /t 1, goto wait)
BatWaitPoll ==
    /\ bat = "wait"
    /\ app_running
    /\ UNCHANGED <<storeVars, updVars, fnVars, closeVars, uiVars, scriptVars, raceVars>>

\* variant of the wait that goes on without looking at the process table
BatWaitNoPidCheck(pushdOk) ==
    /\ bat = "wait"
    /\ bat' = IF pushdOk THEN "backup" ELSE "exit_pushd"
    /\ UNCHANGED <<env, chk, info, upd, fail, dl, inspected, staged,
                   pending_err, notes, app_running, target, bak, tries, launches>>
    /\ UNCHANGED ui
    /\ UNCHANGED <<self_del, race>>
    /\ UNCHANGED <<storeVars, fnVars, closeVars>>

\* :wait loop left once tasklist no longer lists %PID%; then pushd
BatWaitDone(pushdOk) ==
    /\ bat = "wait"
    /\ ~app_running
    /\ bat' = IF pushdOk THEN "backup" ELSE "exit_pushd"
    /\ UNCHANGED <<env, chk, info, upd, fail, dl, inspected, staged,
                   pending_err, notes, app_running, target, bak, tries, launches>>
    /\ UNCHANGED ui
    /\ UNCHANGED <<self_del, race>>
    /\ UNCHANGED <<storeVars, fnVars, closeVars>>

\* "Backup current exe": del the old .bak, copy TARGET_EXE to BAK_EXE
BatBackup(ok) ==
    /\ bat = "backup"
    /\ bak' = CopyOver(ok, target, "none")
    /\ bat' = IF ok THEN "swap" ELSE "exit_backup"
    /\ UNCHANGED <<env, chk, info, upd, fail, dl, inspected, staged,
                   pending_err, notes, app_running, target, tries, launches>>
    /\ UNCHANGED ui
    /\ UNCHANGED <<self_del, race>>
    /\ UNCHANGED <<storeVars, fnVars, closeVars>>

\* "Swap in new exe": copy NEW_COPY2 over TARGET_EXE; on errorlevel 1 the
\* unchecked copy of BAK_EXE back over TARGET_EXE, then exit /b 1.  On success
\* the script goes on (uninstaller copy, env reset, TRIES=0) to :selftest
BatSwap(ok, restoreOk) ==
    /\ bat = "swap"
    /\ IF ok
       THEN /\ target' = CopyOver(TRUE, staged, target)
            /\ tries' = 0
            /\ bat' = "selftest"
       ELSE /\ target' = IF bak # "none"
                         THEN CopyOver(restoreOk, bak, target) ELSE target
            /\ tries' = tries
            /\ bat' = "exit_swap"
    /\ UNCHANGED <<env, chk, info, upd, fail, dl, inspected, staged,
                   pending_err, notes, app_running, bak, launches>>
    /\ UNCHANGED ui
    /\ UNCHANGED <<self_del, race>>
    /\ UNCHANGED <<storeVars, fnVars, closeVars>>

\* contents that main() can answer --copy2-selftest from
Runnable(content) == content \in {"exe", "old"}

\* variant without the attempt counter: a failed attempt is always retried
BatSelfTestNoCeiling(pass) ==
    /\ bat = "selftest"
    /\ pass => Runnable(target)
    /\ tries' = tries
    /\ bat' = IF pass THEN "commit" ELSE "selftest"
    /\ UNCHANGED <<env, chk, info, upd, fail, dl, inspected, staged,
                   pending_err, notes, app_running, target, bak, launches>>
    /\ UNCHANGED ui
    /\ UNCHANGED <<self_del, race>>
    /\ UNCHANGED <<storeVars, fnVars, closeVars>>

\* variant of the retry test that compares with LEQ
BatSelfTestOneMore(pass) ==
    /\ bat = "selftest"
    /\ pass => Runnable(target)
    /\ tries' = tries + 1
    /\ bat' = IF pass THEN "commit"
              ELSE IF tries + 1 <= SELFTEST_MAX_TRIES THEN "selftest"
              ELSE "rollback"
    /\ UNCHANGED <<env, chk, info, upd, fail, dl, inspected, staged,
                   pending_err, notes, app_running, target, bak, launches>>
    /\ UNCHANGED ui
    /\ UNCHANGED <<self_del, race>>
    /\ UNCHANGED <<storeVars, fnVars, closeVars>>

\* :selftest  set /a TRIES+=1, run TARGET_EXE --copy2-selftest; pass is the
\* observed exit status (errorlevel 0)
BatSelfTest(pass) ==
    /\ bat = "selftest"
    /\ pass => Runnable(target)
    /\ tries' = tries + 1
    /\ bat' = IF pass THEN "commit"
              ELSE IF tries + 1 < SELFTEST_MAX_TRIES THEN "selftest"
              ELSE "rollback"
    /\ UNCHANGED <<env, chk, info, upd, fail, dl, inspected, staged,
                   pending_err, notes, app_running, target, bak, launches>>
    /\ UNCHANGED ui
    /\ UNCHANGED <<self_del, race>>
    /\ UNCHANGED <<storeVars, fnVars, closeVars>>

\* "selftest OK - launching": start TARGET_EXE, popd, del "%~f0" (its result
\* is not looked at)
BatCommit ==
    /\ bat = "commit"
    /\ launches' = launches + 1
    /\ bat' = "done"
    /\ UNCHANGED <<env, chk, info, upd, fail, dl, inspected, staged,
                   pending_err, notes, app_running, target, bak, tries>>
    /\ UNCHANGED ui
    /\ self_del' = TRUE
    /\ UNCHANGED race
    /\ UNCHANGED <<storeVars, fnVars, closeVars>>

\* "selftest failed - rollback": unchecked copy of BAK_EXE over TARGET_EXE,
\* start TARGET_EXE, exit /b 1
BatRollback(restoreOk) ==
    /\ bat = "rollback"
    /\ target' = IF bak # "none"
                 THEN CopyOver(restoreOk, bak, target) ELSE target
    /\ launches' = launches + 1
    /\ bat' = "exit_rollback"
    /\ UNCHANGED <<env, chk, info, upd, fail, dl, inspected, staged,
                   pending_err, notes, app_running, bak, tries>>
    /\ UNCHANGED ui
    /\ UNCHANGED <<self_del, race>>
    /\ UNCHANGED <<storeVars, fnVars, closeVars>>

\* --------------------------------------------------------- initial states
\* variant of from_dict that takes the stored number as it is
FromDictUnclamped(raw) == raw

\* Settings.from_dict: max(5, min(HARD_MAX_HISTORY, s.max_history))
FromDict(raw) == Max2(MIN_MAX_HISTORY, Min2(HARD_MAX_HISTORY, raw))

\* first run: empty stores; max_history as Settings.from_dict reads it from
\* the stored number
StoreInit ==
    /\ history = <<>>
    /\ favorites = {}
    /\ pins = {}
    /\ tags = EmptyTags
    /\ \E raw \in CapacityInputs : max_history = FromDict(raw)
    /\ warned_limit_reached = FALSE
    /\ warned_fav_block = FALSE
    /\ last = [op |-> "Init", calls |-> {}, shown |-> {}, removed |-> {}]

\* the update engine before any check; a .bak of an earlier update may exist
UpdInit ==
    /\ closed = NotClosed
    /\ ui = {}
    /\ self_del = FALSE
    /\ race = NoRace
    /\ env \in [frozen : BOOLEAN, onedir : BOOLEAN, markers : BOOLEAN,
               exe_exists : BOOLEAN]
    /\ chk = "idle"
    /\ info = NoInfo
    /\ upd = "idle"
    /\ fail = "none"
    /\ dl = [downloaded |-> 0, expected |-> NoExpected, content |-> "none"]
    /\ inspected = FALSE
    /\ staged = "none"
    /\ pending_err = 0
    /\ notes = 0
    /\ app_running = TRUE
    /\ bat = "none"
    /\ target = "old"
    /\ bak \in {"none", "stale"}
    /\ tries = 0
    /\ launches = 0

\* the pure functions have not been called
FnIdle ==
    /\ ver_in = [latest |-> <<>>, installed |-> AppVersionString]
    /\ ver_out = NoVerOut
    /\ rel_in = NoRelease
    /\ rel_out = NoInfo
    /\ prune_in = NoPruneIn
    /\ prune_out = NoPruneOut

\* ----------------------------------------------------- store specification
StoreNext ==
    \/ \E text \in Contents : Add(text)
    \/ \E t \in Contents : DeleteSelected(t)
    \/ CleanKeepFavorites
    \/ \E it \in Contents : ToggleFavorite(it)
    \/ \E t \in Contents : TogglePin(t)
    \/ \E t \in Contents : AddTag(t)
    \/ \E t \in Contents : RemoveTag(t)
    \/ \E raw \in CapacityInputs : ApplySettings(raw)
    \/ \E doc \in ImportDocs : Import(doc)
    \/ \E old \in Contents, new \in Contents : SavePreviewEdits(old, new)

Init ==
    /\ StoreInit
    /\ UpdInit
    /\ env = [frozen |-> TRUE, onedir |-> FALSE, markers |-> FALSE,
              exe_exists |-> TRUE]
    /\ bak = "none"
    /\ FnIdle

Next == StoreNext

Spec == Init /\ [][Next]_vars

\* ---------------------------------------------------- update specification
UpdNext ==
    \/ CheckUpdatesAsync
    \/ \E resp \in Responses : CheckWorker(resp)
    \/ \E yes \in BOOLEAN : UiPrompt(yes)
    \/ WorkerStart
    \/ DownloadFails
    \/ \E d \in Downloads : Download(d)
    \/ SizeCheck
    \/ Stage
    \/ \E ok \in BOOLEAN : LaunchBat(ok)
    \/ UiErr
    \/ \E dirty \in BOOLEAN, mode \in PersistModes : OnCloseForUpdate(dirty, mode)
    \/ BatWaitPoll
    \/ \E pushdOk \in BOOLEAN : BatWaitDone(pushdOk)
    \/ \E ok \in BOOLEAN : BatBackup(ok)
    \/ \E ok \in BOOLEAN, restoreOk \in BOOLEAN : BatSwap(ok, restoreOk)
    \/ \E pass \in BOOLEAN : BatSelfTest(pass)
    \/ BatCommit
    \/ \E restoreOk \in BOOLEAN : BatRollback(restoreOk)

UpdSpecInit ==
    /\ StoreInit
    /\ max_history = HARD_MAX_HISTORY
    /\ UpdInit
    /\ FnIdle

UpdSpec == UpdSpecInit /\ [][UpdNext]_vars

\* the update flow of a standalone build, with the Tk event loop running the
\* callback that after(150, self._on_close_for_update) scheduled
CloseSpecInit ==
    /\ UpdSpecInit
    /\ env = [frozen |-> TRUE, onedir |-> FALSE, markers |-> FALSE,
              exe_exists |-> TRUE]

CloseSpec ==
    /\ CloseSpecInit
    /\ [][UpdNext]_vars
    /\ WF_vars(\E dirty \in BOOLEAN, mode \in PersistModes :
                  OnCloseForUpdate(dirty, mode))

\* the update flow with cmd.exe running the script: a command that can run
\* is eventually run (the wait loop polls once per second, the self-test
\* loop every two seconds)
BatFairness ==
    /\ WF_vars(\E pushdOk \in BOOLEAN : BatWaitDone(pushdOk))
    /\ WF_vars(\E ok \in BOOLEAN : BatBackup(ok))
    /\ WF_vars(\E ok \in BOOLEAN, restoreOk \in BOOLEAN : BatSwap(ok, restoreOk))
    /\ WF_vars(\E pass \in BOOLEAN : BatSelfTest(pass))
    /\ WF_vars(BatCommit)
    /\ WF_vars(\E restoreOk \in BOOLEAN : BatRollback(restoreOk))

BatSpec ==
    /\ CloseSpecInit
    /\ [][UpdNext]_vars
    /\ BatFairness

\* several update sessions of one run of a standalone build
RaceSpec == CloseSpecInit /\ [][RaceNext]_vars

\* ------------------------------------------- pure-function specification
\* the arguments tried on _prune_preserving_favorites
PruneInputs ==
    [items : SeqsUpTo(PruneItems, MaxPruneLen) \ {<<>>},
     keep : SUBSET PruneItems,
     capacity : 0..MaxPruneLen]

FnNext ==
    \/ NormVerCall
    \/ ResolveCall
    \/ PruneCall

FnSpecInit ==
    /\ StoreInit
    /\ max_history = HARD_MAX_HISTORY
    /\ UpdInit
    /\ env = [frozen |-> TRUE, onedir |-> FALSE, markers |-> FALSE,
              exe_exists |-> TRUE]
    /\ bak = "none"
    /\ ver_out = NoVerOut
    /\ rel_out = NoInfo
    /\ prune_out = NoPruneOut
    /\ \/ /\ ver_in \in [latest : VersionStrings, installed : {AppVersionString}]
          /\ rel_in = NoRelease
          /\ prune_in = NoPruneIn
       \/ /\ ver_in = [latest |-> <<>>, installed |-> AppVersionString]
          /\ rel_in \in Releases
          /\ prune_in = NoPruneIn
       \/ /\ ver_in = [latest |-> <<>>, installed |-> AppVersionString]
          /\ rel_in = NoRelease
          /\ prune_in \in PruneInputs

FnSpec == FnSpecInit /\ [][FnNext]_vars

\* ======================================================= store properties
\* protected item: favorite, pinned or tagged
Protected(x) ==
    \/ x \in favorites
    \/ x \in pins
    \/ (x \in DOMAIN tags /\ tags[x] > 0)

ProtectedInHistory == {x \in Range(history) : Protected(x)}

\* C1: an item that is in the history and protected immediately before Add(c)
\* or before Clean is still in the history immediately after it.
C1_AddCleanKeepProtected ==
    [][last'.op \in {"Add", "Clean"}
         => \A x \in Range(history) : Protected(x) => x \in Range(history')]_vars

\* an Add or Clean that removed something while a protected item stayed
C1_Witness ==
    /\ last.op \in {"Add", "Clean"}
    /\ last.removed # {}
    /\ ProtectedInHistory # {}

\* C2: ApplyCapacityChange never removes a protected item, also when the
\* protected items alone number more than the new cap.
C2_ApplyKeepsProtected ==
    [][last'.op = "Apply"
         => \A x \in Range(history) : Protected(x) => x \in Range(history')]_vars

\* C3: at softCap with every existing item protected, Add(z) of a new
\* unprotected z leaves the history unchanged and ends in the
\* favorites-blocking notification.
C3_BlockedOutcome ==
    [][\A z \in Contents :
          ( /\ Len(history) = max_history
            /\ \A x \in Range(history) : Protected(x)
            /\ z \notin Range(history)
            /\ ~Protected(z)
            /\ Add(z) )
          => ( /\ history' = history
               /\ "favorites_blocking" \in last'.calls )]_vars

\* C4: after every store operation len(history) <= softCap unless the
\* protected items in the history alone number more than softCap, and
\* len(history) <= hardCap unless the history holds only protected items.
C4_CapacityInvariant ==
    /\ \/ Len(history) <= max_history
       \/ Cardinality(ProtectedInHistory) > max_history
    /\ \/ Len(history) <= HARD_MAX_HISTORY
       \/ \A x \in Range(history) : Protected(x)

\* a store operation evicted something and left the history exactly at the cap
C4_Witness ==
    /\ last.op \in {"Add", "Apply", "Import"}
    /\ last.removed # {}
    /\ Len(history) = max_history

\* C5: the history contains no content twice.
C5_ContentUnique ==
    \A i, j \in 1..Len(history) : i # j => history[i] # history[j]

\* ====================================================== update properties
\* C6: a script run that got past Backup ends with the new executable at the
\* target (after a passed self-test) or with the original bytes (after a
\* failed swap or exhausted self-tests), and commit and rollback launch the
\* target exactly once.
C6_InstallerOutcome ==
    /\ bat = "done" => target = staged
    /\ bat \in {"exit_swap", "exit_rollback"} => target = "old"
    /\ bat \in {"done", "exit_rollback"} => launches = 1

\* C7: the target is written only by the script, only once the orchestrator's
\* PID is gone and the backup copy has succeeded; a failed backup ends the
\* script with the target untouched.
C7_TargetWrittenOnlyAfterExitAndBackup ==
    /\ [][target' # target
            => /\ bat \in {"swap", "rollback"}
               /\ ~app_running
               /\ bak = "old"]_vars
    /\ [](bat \in {"exit_pushd", "exit_backup"} => target = "old")

\* the swap has written the new executable over the target
C7_Witness ==
    /\ bat = "selftest"
    /\ target # "old"
    /\ ~app_running
    /\ bak = "old"

C9_CheckFailsClosed ==
    [][\A resp \in Responses :
          ((resp.kind # "object" \/ resp.tag.empty) /\ CheckWorker(resp))
              => chk' = "check_failed"]_vars

\* C10: a declared byte count that differs from the bytes written fails the
\* update with the size mismatch before the content is inspected or anything
\* is staged; without a declared count the worker goes on to classify.
C10_SizeValidation ==
    /\ [][(upd = "size_check" /\ upd' # upd)
            => /\ (dl.expected # NoExpected /\ dl.downloaded # dl.expected)
                    => (upd' = "failed" /\ fail' = "SizeMismatch")
               /\ dl.expected = NoExpected => upd' = "stage"]_vars
    /\ [](fail = "SizeMismatch" => (~inspected /\ staged = "none"))

\* more bytes than declared were written and the update failed on the size
C10_Witness ==
    /\ upd = "failed"
    /\ fail = "SizeMismatch"
    /\ dl.expected # NoExpected
    /\ dl.downloaded > dl.expected

\* C11: the payload is classified from its content, never from its file name:
\* only a payload that is an executable, or the Copy2.exe found in an archive,
\* is ever staged as the new executable.
C11_StagedOnlyFromContent ==
    staged \in {"none", "exe"}

\* the update has gone past the release-page fallback: a download was started
Downloading == upd \in {"download", "size_check", "stage", "write_bat",
                        "closing", "exited"}

\* C12: when the process is not frozen, or is a folder-based (onedir) build,
\* the update downloads nothing, stages nothing, launches no script and does
\* not exit the application.
C12_OnlyStandaloneBinary ==
    (~env.frozen \/ env.onedir)
        => /\ ~Downloading
           /\ staged = "none"
           /\ bat = "none"
           /\ app_running

\* the answer names no .zip or .exe asset with a download url, and its release
\* notes hold no .zip or .exe url
NoUsableAsset(resp) ==
    /\ \A k \in 1..Len(resp.assets) :
          resp.assets[k].name \in ZipNames \cup ExeNames => resp.assets[k].url = ""
    /\ resp.body.zip = ""
    /\ resp.body.exe = ""

\* the responses that describe a newer release without a usable asset
NewerWithoutAsset ==
    {resp \in Responses : /\ resp.kind = "object"
                          /\ IsNewerVersion(resp.tag, APP_VERSION)
                          /\ NoUsableAsset(resp)}

EmptyStore == [history |-> <<>>, favorites |-> {}, pins |-> {}, tags |-> EmptyTags]

\* C14: exporting the store and importing the export into an empty store
\* with the same cap gives the same set of history contents and the same
\* favorites.
C14_RoundTrip ==
    \E r \in {ImportInto(EmptyStore, max_history, ExportPayload)} :
        /\ Range(r.history) = Range(history)
        /\ r.favorites = favorites

\* the leading numeric components of a version string: after a leading v,
\* digits, then ".digits" twice at most; what is missing is 0
LeadingTriple(str) ==
    LET s  == StripV(str)
        h1 == Len(s) >= 1 /\ s[1].k = "digits"
        h2 == h1 /\ Len(s) >= 3 /\ s[2].k = "dot" /\ s[3].k = "digits"
        h3 == h2 /\ Len(s) >= 5 /\ s[4].k = "dot" /\ s[5].k = "digits"
    IN  <<IF h1 THEN s[1].n ELSE 0, IF h2 THEN s[3].n ELSE 0,
          IF h3 THEN s[5].n ELSE 0>>

\* C15: _norm_ver gives the triple of the leading numeric components of the
\* tag (missing ones 0, later text ignored, (0,0,0) when there is none), and
\* an update is available exactly when the latest triple is greater.
C15_NormVer ==
    ver_out.done
        => /\ ver_out.latest = LeadingTriple(ver_in.latest)
           /\ ver_out.installed = LeadingTriple(ver_in.installed)
           /\ ver_out.newer = TupleGreater(LeadingTriple(ver_in.latest),
                                           LeadingTriple(ver_in.installed))

\* archive names that contain the hint "copy2"
HintedZipNames == {"copy2.zip", "my-copy2.zip"}

\* the assets of the release rel_in whose names are in the set names
AssetsNamed(names) ==
    {rel_in.assets[k] : k \in {i \in 1..Len(rel_in.assets) : rel_in.assets[i].name \in names}}

\* C16: the resolver chooses a hinted archive if there is one, otherwise the
\* largest archive, otherwise an executable, never another kind of asset; the
\* release notes are used only when the assets give nothing: their first
\* archive url, else their first executable url.
C16_AssetPriority ==
    ~rel_out.none =>
        LET hinted == AssetsNamed(HintedZipNames)
            zips   == AssetsNamed(ZipNames)
            exes   == AssetsNamed(ExeNames)
        IN  /\ hinted # {} => rel_out.asset_name \in HintedZipNames
            /\ (hinted = {} /\ zips # {})
                  => \E a \in zips : /\ a.name = rel_out.asset_name
                                      /\ \A b \in zips : b.size <= a.size
            /\ (zips = {} /\ exes # {}) => rel_out.asset_name \in ExeNames
            /\ (zips = {} /\ exes = {})
                  => rel_out.asset_url = ParseZipUrlFromBody(rel_in.body)
            /\ rel_out.asset_name # "readme.txt"

\* C17: settings.max_history is changed only by the settings change; Add,
\* Remove, Clean and Import leave it as it was.
C17_SoftCapFrame ==
    [][max_history' # max_history => last'.op = "Apply"]_vars

\* C18: settings.max_history stays within [minimum, hard cap] in every state:
\* after loading any stored value, after applying any entered value and
\* after the auto-expansion inside Add.
C18_SoftCapRange ==
    /\ MIN_MAX_HISTORY <= max_history
    /\ max_history <= HARD_MAX_HISTORY

\* an Add whose auto-expansion was stopped by the hard cap
C18_Witness ==
    /\ last.op = "Add"
    /\ "hard_cap_reached" \in last.calls
    /\ max_history = HARD_MAX_HISTORY
    /\ Cardinality(favorites \cup pins \cup TagKeys(tags)) + EXPAND_MARGIN
          > HARD_MAX_HISTORY

\* C19: each kind of capacity warning is shown at most once per session; in
\* particular a warning shown by one store operation is not shown again by
\* the operation that follows it.
C19_WarningsOncePerSession ==
    [][\A k \in {"limit_reached", "favorites_blocking", "hard_cap_reached"} :
          ~(k \in last.shown /\ k \in last'.shown)]_vars

\* C20 as stated: once the script has been launched the application always
\* exits, closing asks no confirmation (also with unsaved preview edits),
\* and the store is persisted before the window is destroyed.
C20_ExitPersistsStore ==
    /\ (upd = "closing") ~> (~app_running /\ closed.done)
    /\ [](closed.done => (closed.confirms = 0 /\ closed.saved = "store"))

\* C20 amended: once the script has been launched the application always
\* exits, closing asks no confirmation (also with unsaved preview edits),
\* and _persist has run before the window is destroyed: it has written the
\* settings, and the store unless session_only is set or Encrypt-All is
\* locked.
C20_ExitAfterAccept ==
    /\ (upd = "closing") ~> (~app_running /\ closed.done)
    /\ [](closed.done
            => /\ closed.confirms = 0
               /\ closed.saved \in {"settings", "store"}
               /\ closed.saved = "store" <=> closed.mode = "normal")

\* the window was closed for the update while the preview held unsaved edits
C20_Witness ==
    /\ closed.done
    /\ closed.dirty
    /\ closed.saved = "store"
    /\ ~app_running
    /\ bat # "none"

\* ================================================== threading properties
\* C21: no worker thread touches the user interface (status text, message
\* dialogs): every such access is made on the interactive thread.
C21_UiOnlyOnInteractiveThread ==
    \A a \in ui : a.thread = "main"

\* ================================================ pure store functions
\* positions of the list items that hold an item outside keep
UnprotectedAt(items, keep) == {i \in 1..Len(items) : items[i] \notin keep}

\* the k first (oldest) of these positions
OldestUnprotected(items, keep, k) ==
    {i \in UnprotectedAt(items, keep) :
        Cardinality({j \in UnprotectedAt(items, keep) : j < i}) < k}

\* the list without the items at the positions gone, order kept
DropPositions(items, gone) ==
    LET idx == SelectSeq([i \in 1..Len(items) |-> i], LAMBDA i : i \notin gone)
    IN  [j \in 1..Len(idx) |-> items[idx[j]]]

\* C22: the prune result is the input list without its k oldest unprotected
\* items, k = min(number of unprotected items, len - capacity) and 0 when
\* len <= capacity, the other items in their order; the flag is true exactly
\* when the result is no longer than the capacity.
C22_Evict ==
    prune_out.done =>
        LET items == prune_in.items
            keep  == prune_in.keep
            over  == Len(items) - prune_in.capacity
            k     == IF over <= 0 THEN 0
                     ELSE Min2(Cardinality(UnprotectedAt(items, keep)), over)
        IN  /\ prune_out.items = DropPositions(items, OldestUnprotected(items, keep, k))
            /\ prune_out.ok <=> (Len(prune_out.items) <= prune_in.capacity)

\* the example: capacity 3, B favorite, B D E F is pruned to B E F
C22_Witness ==
    /\ prune_out.done
    /\ prune_in = [items |-> <<1, 2, 3, 4>>, keep |-> {1}, capacity |-> 3]
    /\ prune_out.items = <<1, 3, 4>>
    /\ prune_out.ok

\* C23: Add(c) of a content that is in the history already gives the old
\* history without c followed by c, removes nothing else and evicts nothing;
\* Add of the content that is already the most recent leaves the history as
\* it was.
C23_DedupReorder ==
    [][\A c \in Contents :
          (c \in Range(history) /\ Add(c))
             => /\ history' = Without(history, c) \o <<c>>
                /\ last'.removed = {}
                /\ max_history' = max_history
                /\ history[Len(history)] = c => history' = history]_vars

\* ================================================== installer: self-test
\* C24: a script run executes the self-test at most 5 times; TRIES counts the
\* attempts; another attempt follows only a failed one; a passed attempt
\* leads to Commit at once (after attempt 1 when the first one passes); and
\* Rollback is entered only by the failure of the 5th attempt.
C24_SelfTestBounded ==
    /\ [](tries <= SELFTEST_MAX_TRIES)
    /\ [][tries' # tries
            => \/ bat = "selftest" /\ tries' = tries + 1
               \/ bat = "swap" /\ tries' = 0]_vars
    /\ [][(bat = "selftest" /\ bat' # bat)
            => /\ tries' = tries + 1
               /\ bat' \in {"commit", "rollback"}
               /\ bat' = "rollback" => tries' = SELFTEST_MAX_TRIES]_vars
    /\ [][(bat = "selftest" /\ BatSelfTest(TRUE)) => bat' = "commit"]_vars
    /\ [][(bat = "selftest" /\ bat' = "selftest" /\ tries' # tries)
            => BatSelfTest(FALSE) /\ tries' < SELFTEST_MAX_TRIES]_vars
    /\ [][bat' = "rollback" => (bat = "selftest" /\ BatSelfTest(FALSE))]_vars
    /\ [][bat' = "commit" => (bat = "selftest" /\ BatSelfTest(TRUE))]_vars

\* the script rolled back after five failed attempts
C24_Witness ==
    /\ bat = "exit_rollback"
    /\ tries = SELFTEST_MAX_TRIES
    /\ launches = 1

\* the positions in which the script has ended
BatEnded == {"done", "exit_pushd", "exit_backup", "exit_swap", "exit_rollback"}

\* C25: once the orchestrator's process has exited, the script terminates:
\* the wait loop is left when the PID is gone, the self-test loop is bounded
\* by its ceiling, and the script does nothing more once a failure branch or
\* the last line has ended it.
C25_ScriptTerminates ==
    /\ (bat # "none" /\ ~app_running) ~> (bat \in BatEnded)
    /\ (bat = "wait" /\ ~app_running) ~> (bat # "wait")
    /\ [][(bat \in BatEnded)
            => /\ bat' = bat
               /\ target' = target
               /\ bak' = bak
               /\ launches' = launches]_vars
    /\ [][(bat = bat' /\ bat \notin {"none", "wait"} /\ tries' # tries)
            => (bat = "selftest" /\ tries' <= SELFTEST_MAX_TRIES)]_vars

\* the script ended with the commit after a retried self-test
C25_Witness ==
    /\ bat = "done"
    /\ ~app_running
    /\ tries > 1
    /\ launches = 1

\* C26: a script run that reached Commit or Rollback has run the deletion of
\* its own file by the time it ends.
C26_CleanupAfterBothOutcomes ==
    bat \in {"done", "exit_rollback"} => self_del

\* ================================================ store: auto-expansion
\* the protected set _add_history_item counts: favorites, pins, tag keys
ProtectedSet == favorites \cup pins \cup TagKeys(tags)

\* C27: Add of a new content ends blocked (history unchanged, favorites-
\* blocking warning) only when max_history already equals the hard cap; when
\* the protected items alone number more than max_history (here: they fill
\* the history and there are more of them) and max_history is below the hard
\* cap, Add raises it to min(hard cap, max(max_history, protected count +
\* margin)), never lowers it, and stores the new content at the most-recent
\* position.
C27_BlockedOnlyAtHardCap ==
    [][\A c \in Contents :
          (c \notin Range(history) /\ Add(c))
             => /\ "favorites_blocking" \in last'.calls
                    => max_history = HARD_MAX_HISTORY
                /\ ( /\ Cardinality(ProtectedSet) > max_history
                     /\ Len(history) = max_history
                     /\ Range(history) \subseteq ProtectedSet
                     /\ max_history < HARD_MAX_HISTORY )
                    => /\ max_history' =
                            Min2(HARD_MAX_HISTORY,
                                 Max2(max_history,
                                      Cardinality(ProtectedSet) + EXPAND_MARGIN))
                       /\ max_history' >= max_history
                       /\ Len(history') > 0
                       /\ history'[Len(history')] = c]_vars

\* C28: an item that is in the history and protected before an import is
\* still in the history after it, also when the merged protected items alone
\* number more than max_history.
C28_ImportKeepsProtected ==
    [][last'.op = "Import"
         => \A x \in Range(history) : Protected(x) => x \in Range(history')]_vars

\* ============================================== one update per run
\* sessions that are downloading, staging or writing their script
SessionsUpdating == {s \in Sessions : race.phase[s] \in {"download", "stage", "write_bat"}}

\* sessions whose installer script has been started
SessionsLaunched == {s \in Sessions : race.phase[s] = "launched"}

\* C29: in one run of the application at most one update session downloads
\* and stages against the target executable and at most one installer script
\* is launched, however many checks are started and prompts accepted.
C29_AtMostOneInstaller ==
    Cardinality(SessionsUpdating \cup SessionsLaunched) <= 1

\* ======================================================= store: Remove
\* C30: Remove of a text that is in the history takes it out of the history,
\* the favorites, the pins and the tags; every other item keeps its place in
\* the order and its flags; and an Add changes no flag, so the removed text
\* comes back unprotected.
C30_RemoveFrame ==
    /\ [][\A t \in Contents :
            DeleteSelected(t)
               => /\ history' = Without(history, t)
                  /\ t \notin Range(history')
                  /\ t \notin favorites' \cup pins' \cup TagKeys(tags')
                  /\ favorites' = favorites \ {t}
                  /\ pins' = pins \ {t}
                  /\ TagKeys(tags') = TagKeys(tags) \ {t}
                  /\ \A k \in TagKeys(tags') : tags'[k] = tags[k]
                  /\ max_history' = max_history]_vars
    /\ [][last'.op = "Add"
            => /\ favorites' = favorites
               /\ pins' = pins
               /\ tags' = tags]_vars

\* a text was removed and another, protected one is still in the history
C30_Witness ==
    /\ last.op = "Delete"
    /\ last.removed # {}
    /\ ProtectedInHistory # {}
    /\ last.removed \cap (favorites \cup pins \cup TagKeys(tags)) = {}

====
